---- MODULE Spec2Model ----
(***************************************************************************)
(* Model of app.py: the Flask inference gateway.                           *)
(*                                                                         *)
(* Each request-handling thread runs detect() step by step; the two locks, *)
(* the global (model, _loaded_path) pair, the model files on disk, the     *)
(* wall clock and the detections.csv file are the shared state.            *)
(* One more thread serves the GET routes (health, csv_view, csv_download).  *)
(***************************************************************************)
EXTENDS Integers, Sequences, FiniteSets, TLC

\* ------------------------------------------------------------------ bounds
NumThreads == 2        \* request-handling threads of the server
MaxRequests == 2       \* POST /detect requests arriving in a run
MaxBoxes == 2          \* boxes one predict call returns (never above max_det)
MaxClock == 1          \* last second the wall clock reaches
MaxRows == 2           \* rows the audit file grows to
MaxCalls == 3          \* direct calls of _ensure_model_loaded in a run
MaxStored == 202       \* records of the audit file GET /csv is asked to show
MaxOver == 120         \* decoded frames are up to target_w + MaxOver wide
MaxHeight == 150       \* decoded frames are up to MaxHeight high

\* ------------------------------------------------------- program constants
max_det == 3           \* predict(max_det=3)
target_w == 480        \* resize threshold and target width
maxlen == 200          \* deque(maxlen=200) of csv_view

Threads == 1..NumThreads

None == "<None>"

\* MODEL_PATH and MODEL_MAP["best"], configured to two different files.
MODEL_PATH == "models/best.pt"
MODEL_BEST_PATH == "models/alt.pt"
MODEL_MAP == [best |-> MODEL_BEST_PATH]
Paths == {MODEL_PATH, MODEL_BEST_PATH}

\* Values the request parameter "model" takes in the query string or the form.
Names == {None, "", "best", "other"}

Min(a, b) == IF a < b THEN a ELSE b

VARIABLES
  pc,           \* pc[t]: the line thread t is about to execute ("idle": no request)
  infer_lock,   \* _infer_lock is held
  model_lock,   \* _model_lock is held
  model,        \* global model: None, or the handle, named by the path it was loaded from
  loaded_path,  \* global _loaded_path
  exists,       \* exists[p]: os.path.exists(p)
  now,          \* wall clock, in seconds
  csvExists,    \* os.path.exists(CSV_PATH)
  csv,          \* rows of detections.csv, in file order
  target,       \* detect: target_model_path; _ensure_model_loaded: target_path
  ok,           \* return value of _ensure_model_loaded
  msg,          \* the line _ensure_model_loaded printed last
  img,          \* img_bytes, then img (its kind and dimensions)
  results,      \* results of model.predict
  detections,   \* the list detections
  idx,          \* position of the loop of _append_rows
  status,       \* HTTP status of the response being returned
  cache0,       \* history: (model, _loaded_path) when _ensure_model_loaded was entered
  csv0,         \* history: the rows of the file when the request was admitted
  acquired,     \* history: successful _infer_lock.acquire calls
  released,     \* history: _infer_lock.release calls
  rejected,     \* history: 429 responses
  calls,        \* history: direct calls of _ensure_model_loaded
  loadCount,    \* history: loadCount[p]: YOLO(p) calls that returned a handle
  loadFails,    \* history: YOLO calls that raised
  unavailable,  \* history: paths a request was answered 503 for
  rpc,          \* the line the thread serving the GET routes is about to execute
  rows,         \* csv_view: the deque rows
  rpos,         \* csv_view: rows of the file csv.reader has gone past
  resp,         \* the response of the GET route being returned
  body,         \* what the body of the request being admitted gives the image reader
  decoded,      \* the frame cv2.imdecode returned (line 142)
  resized       \* the frame after lines 147-151

shared == <<infer_lock, model_lock, model, loaded_path, exists, now, csvExists, csv>>
locals == <<pc, target, ok, msg, img, results, detections, idx, status>>
history == <<cache0, csv0, acquired, released, rejected, unavailable>>
\* The thread serving GET /health, /csv and /logs/detections.csv.
reader == <<rpc, rows, rpos, resp>>
\* Inputs held fixed while one part of detect() is looked at.
inputs == <<body, decoded, resized>>
\* What detect() leaves alone: the counters of the calls made to the registry
\* directly (SpecReg), the GET routes, the inputs held fixed.
harness == <<calls, loadCount, loadFails, reader, inputs>>
vars == <<shared, locals, history, harness>>

\* ------------------------------------------------------------ data values
NoImage == [k |-> "none", w |-> 0, h |-> 0]

\* A detection: class id, confidence (in percent), bbox (x1, y1, x2, y2).
Dets ==
  { [class_id |-> 0, confidence |-> 90, bbox |-> <<8, 8, 40, 40>>],
    [class_id |-> 1, confidence |-> 50, bbox |-> <<1, 2, 3, 4>>] }

\* A box of a predict result: its tensors, and whether they can be indexed.
RawBoxes ==
  { [cls |-> d.class_id, conf |-> d.confidence, xyxy |-> d.bbox, wellformed |-> TRUE] :
      d \in Dets }
  \cup { [cls |-> 0, conf |-> 0, xyxy |-> <<0, 0, 0, 0>>, wellformed |-> FALSE] }

SeqsUpTo(S, n) == UNION { [1..k -> S] : k \in 0..n }

\* The response of a request: its HTTP status and the "error" of its JSON body.
NoResponse == [code |-> 0, error |-> ""]
Response(code, error) == [code |-> code, error |-> error]

\* Contents of an uploaded file or of a decoded data URL.
Images ==
  { [k |-> "image", w |-> 320, h |-> 240],
    [k |-> "image", w |-> 600, h |-> 400],
    [k |-> "image", w |-> 1000, h |-> 1] }
Bytes == Images \cup { [k |-> "empty", w |-> 0, h |-> 0], [k |-> "garbage", w |-> 0, h |-> 0] }
Raised == [k |-> "raise", w |-> 0, h |-> 0]

\* Request bodies: a multipart form with a file field "image" or "file", a form
\* whose only file field "image" was left empty (no file name), a JSON object (its
\* "frame": absent, a string without "base64,", a data URL whose base64 text is
\* invalid, a data URL carrying data), a JSON array, anything else.
Payloads ==
  { [form |-> f, frame |-> "", data |-> b] : f \in {"image", "file"}, b \in Bytes }
  \cup { [form |-> "json", frame |-> fr, data |-> b] :
           fr \in {"absent", "no_marker", "bad_base64", "data_url"}, b \in Bytes }
  \cup { [form |-> f, frame |-> "", data |-> NoImage] :
           f \in {"image_unnamed", "json_array", "other"} }

\* _read_image_bytes: the bytes, NoImage for None, Raised for an exception.
ReadImageBytes(payload) ==
  IF payload.form \in {"image", "file"} THEN payload.data
  ELSE IF payload.form = "image_unnamed" THEN Raised   \* falsy file, None.read()
  ELSE IF payload.form = "json_array" THEN Raised      \* list has no .get
  ELSE IF payload.form = "json" THEN
    IF payload.frame = "data_url" THEN payload.data
    ELSE IF payload.frame = "bad_base64" THEN Raised   \* binascii.Error
    ELSE NoImage
  ELSE NoImage

\* _resolve_model_path, for the query parameter and the form field "model".
ResolveModelPath(args, form) ==
  LET name == IF args \notin {None, ""} THEN args ELSE form
  IN IF name \notin {None, ""} /\ name \in DOMAIN MODEL_MAP THEN MODEL_MAP[name]
     ELSE MODEL_PATH

\* Frames (w, h), up to 620 wide and 160 high, for which the double
\* h * (target_w / float(w)) falls just below the whole number h * target_w / w.
FloatShort == { <<596, 149>>, <<604, 151>> }

\* ScaledHeight taking the nearest integer instead of truncating.
ScaledHeightNearest(w, h) == (2 * h * target_w + w) \div (2 * w)

\* Height cv2.resize is asked for: int(h * (target_w / float(w))), the double
\* truncated: the quotient rounded down, one less for the frames of FloatShort.
ScaledHeight(w, h) ==
  IF <<w, h>> \in FloatShort THEN (h * target_w) \div w - 1 ELSE (h * target_w) \div w

\* Lines 175-178: the detection of a box.
Detection(box) == [class_id |-> box.cls, confidence |-> box.conf, bbox |-> box.xyxy]

\* Row with the class id and the confidence in each other's column.
RowSwapped(ts, d) == <<ts, d.confidence, d.class_id>> \o d.bbox

\* The detection a row of the file carries (columns 2 to 7).
RowDetection(row) ==
  [class_id |-> row[2], confidence |-> row[3], bbox |-> <<row[4], row[5], row[6], row[7]>>]

\* Lines 86-89: the row written for detection d at wall-clock second ts.
Row(ts, d) == <<ts, d.class_id, d.confidence>> \o d.bbox

\* deque(maxlen=200).append: a full deque drops its oldest element.
DequeAppendKeepingOldest(q, x) == IF Len(q) >= maxlen THEN q ELSE Append(q, x)

DequeAppend(q, x) == IF Len(q) >= maxlen THEN Append(Tail(q), x) ELSE Append(q, x)

\* The response of a GET route: status, kind of body, whether the body starts
\* with the header row (time, class_id, confidence, x1, y1, x2, y2), its data rows.
NoReply == [code |-> 0, kind |-> "", header |-> FALSE, lines |-> <<>>]

\* ------------------------------------------------------------------- Init
\* The state after import, but for the audit file and the frame held fixed.
InitRest ==
  /\ pc = [t \in Threads |-> "idle"]
  /\ infer_lock = FALSE
  /\ model_lock = FALSE
  /\ model = None
  /\ loaded_path = None
  /\ exists = [p \in Paths |-> TRUE]
  /\ now = 0
  /\ target = [t \in Threads |-> None]
  /\ ok = [t \in Threads |-> FALSE]
  /\ msg = [t \in Threads |-> ""]
  /\ img = [t \in Threads |-> NoImage]
  /\ results = [t \in Threads |-> <<>>]
  /\ detections = [t \in Threads |-> <<>>]
  /\ idx = [t \in Threads |-> 0]
  /\ status = [t \in Threads |-> NoResponse]
  /\ cache0 = [t \in Threads |-> <<None, None>>]
  /\ csv0 = [t \in Threads |-> <<>>]
  /\ acquired = 0
  /\ released = 0
  /\ rejected = 0
  /\ calls = 0
  /\ loadCount = [p \in Paths |-> 0]
  /\ loadFails = 0
  /\ unavailable = {}
  /\ rpc = "idle"
  /\ rows = <<>>
  /\ rpos = 0
  /\ resp = NoReply
  /\ body = "image"
  /\ resized = NoImage

\* A fresh deployment: logs/ holds no detections.csv yet.
Init ==
  /\ InitRest
  /\ csvExists = FALSE
  /\ csv = <<>>
  /\ decoded = NoImage

\* ------------------------------------------------- _ensure_model_loaded
\* Entry with target_path = p (line 46).
EnsureEntry(t, p) ==
  /\ target' = [target EXCEPT ![t] = p]
  /\ msg' = [msg EXCEPT ![t] = ""]
  /\ ok' = [ok EXCEPT ![t] = FALSE]
  /\ cache0' = [cache0 EXCEPT ![t] = <<model, loaded_path>>]
  /\ pc' = [pc EXCEPT ![t] = "fast_model"]

\* Line 51, left operand: model is not None (read without any lock).
FastModel(t) ==
  /\ pc[t] = "fast_model"
  /\ pc' = [pc EXCEPT ![t] = IF model # None THEN "fast_path" ELSE "exists"]
  /\ UNCHANGED <<shared, target, ok, msg, img, results, detections, idx, status, history>>

\* FastPath without the comparison of the paths: any cached model will do.
FastPathAnyModel(t) ==
  /\ pc[t] = "fast_path"
  /\ ok' = [ok EXCEPT ![t] = TRUE]
  /\ pc' = [pc EXCEPT ![t] = "returned"]
  /\ UNCHANGED <<shared, target, msg, img, results, detections, idx, status, history>>

\* Line 51, right operand, and line 52: _loaded_path == target_path: return True.
FastPath(t) ==
  /\ pc[t] = "fast_path"
  /\ IF loaded_path = target[t]
       THEN /\ ok' = [ok EXCEPT ![t] = TRUE]
            /\ pc' = [pc EXCEPT ![t] = "returned"]
       ELSE /\ ok' = ok
            /\ pc' = [pc EXCEPT ![t] = "exists"]
  /\ UNCHANGED <<shared, target, msg, img, results, detections, idx, status, history>>

\* CheckExists with the failure remembered: a path once answered 503 is refused
\* without looking at the disk again.
CheckExistsRemembering(t) ==
  /\ pc[t] = "exists"
  /\ IF ~exists[target[t]] \/ target[t] \in unavailable
       THEN /\ msg' = [msg EXCEPT ![t] = "Model not found"]
            /\ pc' = [pc EXCEPT ![t] = "returned"]
       ELSE /\ msg' = msg
            /\ pc' = [pc EXCEPT ![t] = "lock"]
  /\ UNCHANGED <<shared, target, ok, img, results, detections, idx, status, history>>

\* Lines 53-55: the file is missing: warn and return False.
CheckExists(t) ==
  /\ pc[t] = "exists"
  /\ IF ~exists[target[t]]
       THEN /\ msg' = [msg EXCEPT ![t] = "Model not found"]
            /\ pc' = [pc EXCEPT ![t] = "returned"]
       ELSE /\ msg' = msg
            /\ pc' = [pc EXCEPT ![t] = "lock"]
  /\ UNCHANGED <<shared, target, ok, img, results, detections, idx, status, history>>

\* LockModel without the lock being waited for.
LockModelUnchecked(t) ==
  /\ pc[t] = "lock"
  /\ model_lock' = TRUE
  /\ pc' = [pc EXCEPT ![t] = "recheck"]
  /\ UNCHANGED <<infer_lock, model, loaded_path, exists, now, csvExists, csv>>
  /\ UNCHANGED <<target, ok, msg, img, results, detections, idx, status, history>>

\* Line 56: with _model_lock (blocking).
LockModel(t) ==
  /\ pc[t] = "lock"
  /\ ~model_lock
  /\ model_lock' = TRUE
  /\ pc' = [pc EXCEPT ![t] = "recheck"]
  /\ UNCHANGED <<infer_lock, model, loaded_path, exists, now, csvExists, csv>>
  /\ UNCHANGED <<target, ok, msg, img, results, detections, idx, status, history>>

\* Recheck without the second check: whoever gets the lock loads.
RecheckAlwaysLoad(t) ==
  /\ pc[t] = "recheck"
  /\ pc' = [pc EXCEPT ![t] = "load"]
  /\ UNCHANGED <<shared, target, ok, msg, img, results, detections, idx, status, history>>

\* Lines 57-58: the second check, under the lock (every write of the pair is under
\* the lock, so the two reads see one state); return True releases the lock.
Recheck(t) ==
  /\ pc[t] = "recheck"
  /\ IF model # None /\ loaded_path = target[t]
       THEN /\ ok' = [ok EXCEPT ![t] = TRUE]
            /\ model_lock' = FALSE
            /\ pc' = [pc EXCEPT ![t] = "returned"]
       ELSE /\ ok' = ok
            /\ model_lock' = model_lock
            /\ pc' = [pc EXCEPT ![t] = "load"]
  /\ UNCHANGED <<infer_lock, model, loaded_path, exists, now, csvExists, csv>>
  /\ UNCHANGED <<target, msg, img, results, detections, idx, status, history>>

\* Lines 60-67: m = YOLO(target_path) returns the handle of the file; model = m.
LoadOK(t) ==
  /\ pc[t] = "load"
  /\ exists[target[t]]
  /\ model' = target[t]
  /\ pc' = [pc EXCEPT ![t] = "set_path"]
  /\ UNCHANGED <<infer_lock, model_lock, loaded_path, exists, now, csvExists, csv>>
  /\ UNCHANGED <<target, ok, msg, img, results, detections, idx, status>>
  /\ UNCHANGED <<cache0, csv0, acquired, released, rejected, unavailable>>

\* Lines 68-70: _loaded_path = target_path; return True (the lock is released).
SetPath(t) ==
  /\ pc[t] = "set_path"
  /\ loaded_path' = target[t]
  /\ msg' = [msg EXCEPT ![t] = "Model loaded"]
  /\ ok' = [ok EXCEPT ![t] = TRUE]
  /\ model_lock' = FALSE
  /\ pc' = [pc EXCEPT ![t] = "returned"]
  /\ UNCHANGED <<infer_lock, model, exists, now, csvExists, csv>>
  /\ UNCHANGED <<target, img, results, detections, idx, status, history>>

\* LoadFail without line 73: the handle loaded before stays in model.
LoadFailKeepsModel(t) ==
  /\ pc[t] = "load"
  /\ msg' = [msg EXCEPT ![t] = "Failed to load model"]
  /\ pc' = [pc EXCEPT ![t] = "clear_path"]
  /\ UNCHANGED <<shared, target, ok, img, results, detections, idx, status, history>>

\* Lines 66, 71-73: YOLO(target_path) raises (the file is gone or is no model);
\* model = None.
LoadFail(t) ==
  /\ pc[t] = "load"
  /\ msg' = [msg EXCEPT ![t] = "Failed to load model"]
  /\ model' = None
  /\ pc' = [pc EXCEPT ![t] = "clear_path"]
  /\ UNCHANGED <<infer_lock, model_lock, loaded_path, exists, now, csvExists, csv>>
  /\ UNCHANGED <<target, ok, img, results, detections, idx, status>>
  /\ UNCHANGED <<cache0, csv0, acquired, released, rejected, unavailable>>

\* Lines 74-75: _loaded_path = None; return False (the lock is released).
ClearPath(t) ==
  /\ pc[t] = "clear_path"
  /\ loaded_path' = None
  /\ model_lock' = FALSE
  /\ pc' = [pc EXCEPT ![t] = "returned"]
  /\ UNCHANGED <<infer_lock, model, exists, now, csvExists, csv>>
  /\ UNCHANGED <<target, ok, msg, img, results, detections, idx, status, history>>

EnsureStep(t) ==
  \/ FastModel(t) \/ FastPath(t) \/ CheckExists(t) \/ LockModel(t) \/ Recheck(t)
  \/ LoadOK(t) \/ SetPath(t) \/ LoadFail(t) \/ ClearPath(t)

\* ------------------------------------------------------------ environment
\* The operator puts a model file in place, or it is removed.
EnvCreate(p) ==
  /\ ~exists[p]
  /\ exists' = [exists EXCEPT ![p] = TRUE]
  /\ UNCHANGED <<infer_lock, model_lock, model, loaded_path, now, csvExists, csv>>
  /\ UNCHANGED <<locals, history>>
  /\ UNCHANGED harness

EnvRemove(p) ==
  /\ exists[p]
  /\ exists' = [exists EXCEPT ![p] = FALSE]
  /\ UNCHANGED <<infer_lock, model_lock, model, loaded_path, now, csvExists, csv>>
  /\ UNCHANGED <<locals, history>>
  /\ UNCHANGED harness

\* ------------------------------------- the registry called on its own
\* A thread calls _ensure_model_loaded(p) directly, holding no lock.
CallEnsure(t, p) ==
  /\ pc[t] = "idle"
  /\ calls < MaxCalls
  /\ calls' = calls + 1
  /\ UNCHANGED <<loadCount, loadFails, reader, inputs>>
  /\ EnsureEntry(t, p)
  /\ UNCHANGED <<shared, img, results, detections, idx, status>>
  /\ UNCHANGED <<csv0, acquired, released, rejected, unavailable>>

\* The direct call has returned ok[t]; the thread is free for the next call.
ReturnEnsure(t) ==
  /\ pc[t] = "returned"
  /\ pc' = [pc EXCEPT ![t] = "idle"]
  /\ target' = [target EXCEPT ![t] = None]
  /\ ok' = [ok EXCEPT ![t] = FALSE]
  /\ msg' = [msg EXCEPT ![t] = ""]
  /\ cache0' = [cache0 EXCEPT ![t] = <<None, None>>]
  /\ UNCHANGED <<shared, img, results, detections, idx, status>>
  /\ UNCHANGED <<csv0, acquired, released, rejected, unavailable>>
  /\ UNCHANGED harness

\* A step of _ensure_model_loaded, with the loads counted.
CountedEnsureStep(t) ==
  \/ /\ LoadOK(t)
     /\ loadCount' = [loadCount EXCEPT ![target[t]] = @ + 1]
     /\ UNCHANGED <<calls, loadFails, reader, inputs>>
  \/ /\ LoadFail(t)
     /\ loadFails' = loadFails + 1
     /\ UNCHANGED <<calls, loadCount, reader, inputs>>
  \/ /\ \/ FastModel(t) \/ FastPath(t) \/ CheckExists(t) \/ LockModel(t)
        \/ Recheck(t) \/ SetPath(t) \/ ClearPath(t)
     /\ UNCHANGED harness

NextReg ==
  \/ \E t \in Threads : \E p \in Paths : CallEnsure(t, p)
  \/ \E t \in Threads : CountedEnsureStep(t)
  \/ \E t \in Threads : ReturnEnsure(t)
  \/ \E p \in Paths : EnvCreate(p)
  \/ \E p \in Paths : EnvRemove(p)

SpecReg == Init /\ [][NextReg]_vars

\* ---------------------------------------------------------------- detect
\* Leaving detect() through the finally clause with response r.
Respond(t, r) ==
  /\ status' = [status EXCEPT ![t] = r]
  /\ pc' = [pc EXCEPT ![t] = "finally"]

\* TryAcquire with the result of acquire ignored: the request goes on although
\* the lock is held.
TryAcquireUnchecked(t) ==
  /\ pc[t] = "idle"
  /\ acquired + rejected < MaxRequests
  /\ infer_lock' = TRUE
  /\ acquired' = acquired + 1
  /\ csv0' = [csv0 EXCEPT ![t] = csv]
  /\ pc' = [pc EXCEPT ![t] = "resolve"]
  /\ UNCHANGED <<model_lock, model, loaded_path, exists, now, csvExists, csv>>
  /\ UNCHANGED <<target, ok, msg, img, results, detections, idx, status>>
  /\ UNCHANGED <<cache0, released, rejected, unavailable>>
  /\ UNCHANGED harness

\* Line 128, acquire(blocking=False) succeeds.
TryAcquire(t) ==
  /\ pc[t] = "idle"
  /\ acquired + rejected < MaxRequests
  /\ ~infer_lock
  /\ infer_lock' = TRUE
  /\ acquired' = acquired + 1
  /\ csv0' = [csv0 EXCEPT ![t] = csv]
  /\ pc' = [pc EXCEPT ![t] = "resolve"]
  /\ UNCHANGED <<model_lock, model, loaded_path, exists, now, csvExists, csv>>
  /\ UNCHANGED <<target, ok, msg, img, results, detections, idx, status>>
  /\ UNCHANGED <<cache0, released, rejected, unavailable>>
  /\ UNCHANGED harness

\* Busy with the acquire inside the try block: the finally clause releases the
\* lock the request never held.
BusyReleasing(t) ==
  /\ pc[t] = "idle"
  /\ acquired + rejected < MaxRequests
  /\ infer_lock
  /\ rejected' = rejected + 1
  /\ infer_lock' = FALSE
  /\ released' = released + 1
  /\ UNCHANGED <<model_lock, model, loaded_path, exists, now, csvExists, csv, locals>>
  /\ UNCHANGED <<cache0, csv0, acquired, unavailable>>
  /\ UNCHANGED harness

\* Lines 128-129, acquire fails: 429 {"error": "busy"} at once.
Busy(t) ==
  /\ pc[t] = "idle"
  /\ acquired + rejected < MaxRequests
  /\ infer_lock
  /\ rejected' = rejected + 1
  /\ UNCHANGED <<shared, locals>>
  /\ UNCHANGED <<cache0, csv0, acquired, released, unavailable>>
  /\ UNCHANGED harness

\* Lines 131-132: resolve the path and enter _ensure_model_loaded.
Resolve(t) ==
  /\ pc[t] = "resolve"
  /\ \E args \in Names, form \in Names : EnsureEntry(t, ResolveModelPath(args, form))
  /\ UNCHANGED <<shared, img, results, detections, idx, status>>
  /\ UNCHANGED <<csv0, acquired, released, rejected, unavailable>>
  /\ UNCHANGED harness

\* Lines 132-133: 503 when _ensure_model_loaded returned False. What the call
\* printed and the cache it was entered with are of no use past this line.
AfterEnsure(t) ==
  /\ pc[t] = "returned"
  /\ IF ok[t]
       THEN /\ pc' = [pc EXCEPT ![t] = "read"]
            /\ UNCHANGED <<status, unavailable>>
       ELSE /\ Respond(t, Response(503, "Model not available"))
            /\ unavailable' = unavailable \cup {target[t]}
  /\ ok' = [ok EXCEPT ![t] = FALSE]
  /\ msg' = [msg EXCEPT ![t] = ""]
  /\ cache0' = [cache0 EXCEPT ![t] = <<None, None>>]
  /\ UNCHANGED <<shared, target, img, results, detections, idx>>
  /\ UNCHANGED <<csv0, acquired, released, rejected>>
  /\ UNCHANGED harness

\* cv2.imdecode (line 142): the image, or NoImage for bytes that are no image.
Imdecode(b) == IF b.k = "image" THEN b ELSE NoImage

\* Lines 147-151: the image given to the model; Raised when cv2.resize is asked
\* for a height of 0.
BoundWidth(i) ==
  IF i.w > target_w
    THEN IF ScaledHeight(i.w, i.h) = 0 THEN Raised
         ELSE [k |-> "image", w |-> target_w, h |-> ScaledHeight(i.w, i.h)]
    ELSE i

\* What a request body gives lines 135-144: an exception of _read_image_bytes,
\* no bytes (None or b""), bytes that are no image, an image.
BodyClass(payload) ==
  IF ReadImageBytes(payload) = Raised THEN "raises"
  ELSE IF ReadImageBytes(payload).k \in {"none", "empty"} THEN "no_bytes"
  ELSE IF Imdecode(ReadImageBytes(payload)) = NoImage THEN "undecodable"
  ELSE "image"

BodyClasses == { BodyClass(payload) : payload \in Payloads }

\* Lines 135-151 for the request body payload: read the bytes (400 when there are
\* none), decode them (400 when they are no image), shrink to width 480. All of it
\* is local to the request.
PreprocessOf(t, payload) ==
  /\ pc[t] = "read"
  /\ LET b == ReadImageBytes(payload)
         d == Imdecode(b)
     IN
     IF b = Raised
       THEN Respond(t, Response(500, "uncaught")) /\ img' = img
     ELSE IF b.k \in {"none", "empty"}
       THEN Respond(t, Response(400, "No image provided")) /\ img' = img
     ELSE IF d = NoImage
       THEN Respond(t, Response(400, "Failed to decode image")) /\ img' = img
     ELSE IF BoundWidth(d) = Raised
       THEN Respond(t, Response(500, "uncaught")) /\ img' = img
     ELSE /\ img' = [img EXCEPT ![t] = BoundWidth(d)]
          /\ pc' = [pc EXCEPT ![t] = "predict"]
          /\ status' = status
  /\ UNCHANGED <<shared, target, ok, msg, results, detections, idx, history>>
  /\ UNCHANGED harness

\* Lines 135-151, whatever the body of the request.
Preprocess(t) == \E payload \in Payloads : PreprocessOf(t, payload)

\* Lines 135-151 for a request whose body is of the kind held in body.
PreprocessBody(t) ==
  \E payload \in Payloads : BodyClass(payload) = body /\ PreprocessOf(t, payload)

\* Lines 154-167: model.predict(source=img) returns at most max_det boxes; img is
\* not used again.
PredictOK(t) ==
  /\ pc[t] = "predict"
  /\ model # None
  /\ \E r \in SeqsUpTo(RawBoxes, Min(MaxBoxes, max_det)) :
       /\ Len(csv) + Len(r) <= MaxRows
       /\ results' = [results EXCEPT ![t] = r]
  /\ img' = [img EXCEPT ![t] = NoImage]
  /\ pc' = [pc EXCEPT ![t] = "parse"]
  /\ UNCHANGED <<shared, target, ok, msg, detections, idx, status, history>>
  /\ UNCHANGED harness

\* Lines 154, 168-169: model.predict raises (also when model is None).
PredictFail(t) ==
  /\ pc[t] = "predict"
  /\ Respond(t, Response(500, "inference failed"))
  /\ UNCHANGED <<shared, target, ok, msg, img, results, detections, idx, history>>
  /\ UNCHANGED harness

\* The boxes before the first one that cannot be read.
RECURSIVE ReadablePrefix(_)
ReadablePrefix(boxes) ==
  IF boxes = <<>> \/ ~Head(boxes).wellformed THEN <<>>
  ELSE <<Head(boxes)>> \o ReadablePrefix(Tail(boxes))

\* Parse with each row written inside the loop, as soon as its box is read.
ParseAppending(t) ==
  /\ pc[t] = "parse"
  /\ IF \A i \in 1..Len(results[t]) : results[t][i].wellformed
       THEN /\ detections' = [detections EXCEPT ![t] =
                                [i \in 1..Len(results[t]) |-> Detection(results[t][i])]]
            /\ pc' = [pc EXCEPT ![t] = "log"]
            /\ status' = status
            /\ csv' = csv
       ELSE /\ Respond(t, Response(500, "parse failed"))
            /\ detections' = detections
            /\ csv' = csv \o [i \in 1..Len(ReadablePrefix(results[t])) |->
                                Row(now, Detection(ReadablePrefix(results[t])[i]))]
  /\ UNCHANGED <<infer_lock, model_lock, model, loaded_path, exists, now, csvExists>>
  /\ UNCHANGED <<target, ok, msg, img, results, idx, history>>
  /\ UNCHANGED harness

\* Lines 171-180: build detections; a box that cannot be read aborts with 500.
Parse(t) ==
  /\ pc[t] = "parse"
  /\ IF \A i \in 1..Len(results[t]) : results[t][i].wellformed
       THEN /\ detections' = [detections EXCEPT ![t] =
                                [i \in 1..Len(results[t]) |-> Detection(results[t][i])]]
            /\ pc' = [pc EXCEPT ![t] = "log"]
            /\ status' = status
       ELSE /\ Respond(t, Response(500, "parse failed"))
            /\ detections' = detections
  /\ UNCHANGED <<shared, target, ok, msg, img, results, idx, history>>
  /\ UNCHANGED harness

\* LogIf with the gate released before the rows are written.
LogIfReleasing(t) ==
  /\ pc[t] = "log"
  /\ IF detections[t] # <<>>
       THEN pc' = [pc EXCEPT ![t] = "append_open"] /\ status' = status
       ELSE Respond(t, Response(200, ""))
  /\ infer_lock' = FALSE
  /\ UNCHANGED <<model_lock, model, loaded_path, exists, now, csvExists, csv>>
  /\ UNCHANGED <<target, ok, msg, img, results, detections, idx, history>>
  /\ UNCHANGED harness

\* Lines 182 and 185: nothing detected: return the empty list, 200.
LogIf(t) ==
  /\ pc[t] = "log"
  /\ IF detections[t] # <<>>
       THEN pc' = [pc EXCEPT ![t] = "append_open"] /\ status' = status
       ELSE Respond(t, Response(200, ""))
  /\ UNCHANGED <<shared, target, ok, msg, img, results, detections, idx, history>>
  /\ UNCHANGED harness

\* AppendOpen with mode "w": opening the file empties it.
AppendOpenTruncating(t) ==
  /\ pc[t] = "append_open"
  /\ csvExists' = TRUE
  /\ csv' = <<>>
  /\ idx' = [idx EXCEPT ![t] = 1]
  /\ pc' = [pc EXCEPT ![t] = "append_row"]
  /\ UNCHANGED <<infer_lock, model_lock, model, loaded_path, exists, now>>
  /\ UNCHANGED <<target, ok, msg, img, results, detections, status, history>>
  /\ UNCHANGED harness

\* Line 83: open(CSV_PATH, "a") creates the file when it is missing.
AppendOpen(t) ==
  /\ pc[t] = "append_open"
  /\ csvExists' = TRUE
  /\ idx' = [idx EXCEPT ![t] = 1]
  /\ pc' = [pc EXCEPT ![t] = "append_row"]
  /\ UNCHANGED <<infer_lock, model_lock, model, loaded_path, exists, now, csv>>
  /\ UNCHANGED <<target, ok, msg, img, results, detections, status, history>>
  /\ UNCHANGED harness

\* Line 83: open raises OSError; nothing catches it.
AppendOpenFail(t) ==
  /\ pc[t] = "append_open"
  /\ Respond(t, Response(500, "uncaught"))
  /\ UNCHANGED <<shared, target, ok, msg, img, results, detections, idx, history>>
  /\ UNCHANGED harness

\* Lines 85-89: one row, stamped with datetime.now() at this iteration.
AppendRow(t) ==
  /\ pc[t] = "append_row"
  /\ idx[t] <= Len(detections[t])
  /\ csv' = Append(csv, Row(now, detections[t][idx[t]]))
  /\ idx' = [idx EXCEPT ![t] = @ + 1]
  /\ UNCHANGED <<infer_lock, model_lock, model, loaded_path, exists, now, csvExists>>
  /\ UNCHANGED <<pc, target, ok, msg, img, results, detections, status, history>>
  /\ UNCHANGED harness

\* Lines 85-89: a write raises OSError; nothing catches it.
AppendRowFail(t) ==
  /\ pc[t] = "append_row"
  /\ idx[t] <= Len(detections[t])
  /\ Respond(t, Response(500, "uncaught"))
  /\ UNCHANGED <<shared, target, ok, msg, img, results, detections, idx, history>>
  /\ UNCHANGED harness

\* Line 185, after the loop of _append_rows ended: return detections, 200.
AppendDone(t) ==
  /\ pc[t] = "append_row"
  /\ idx[t] > Len(detections[t])
  /\ Respond(t, Response(200, ""))
  /\ UNCHANGED <<shared, target, ok, msg, img, results, detections, idx, history>>
  /\ UNCHANGED harness

\* Finally with the release at the end of the success path only, not in a finally
\* clause.
FinallyOnSuccess(t) ==
  /\ pc[t] = "finally"
  /\ infer_lock' = IF status[t].code = 200 THEN FALSE ELSE infer_lock
  /\ released' = IF status[t].code = 200 THEN released + 1 ELSE released
  /\ pc' = [pc EXCEPT ![t] = "idle"]
  /\ target' = [target EXCEPT ![t] = None]
  /\ ok' = [ok EXCEPT ![t] = FALSE]
  /\ msg' = [msg EXCEPT ![t] = ""]
  /\ img' = [img EXCEPT ![t] = NoImage]
  /\ results' = [results EXCEPT ![t] = <<>>]
  /\ detections' = [detections EXCEPT ![t] = <<>>]
  /\ idx' = [idx EXCEPT ![t] = 0]
  /\ status' = [status EXCEPT ![t] = NoResponse]
  /\ cache0' = [cache0 EXCEPT ![t] = <<None, None>>]
  /\ csv0' = [csv0 EXCEPT ![t] = <<>>]
  /\ UNCHANGED <<model_lock, model, loaded_path, exists, now, csvExists, csv>>
  /\ UNCHANGED <<acquired, rejected, unavailable>>
  /\ UNCHANGED harness

\* Finally with the 503 return placed before the try block: that path does not
\* release.
FinallyNoReleaseOn503(t) ==
  /\ pc[t] = "finally"
  /\ infer_lock' = IF status[t].code = 503 THEN infer_lock ELSE FALSE
  /\ released' = IF status[t].code = 503 THEN released ELSE released + 1
  /\ pc' = [pc EXCEPT ![t] = "idle"]
  /\ target' = [target EXCEPT ![t] = None]
  /\ ok' = [ok EXCEPT ![t] = FALSE]
  /\ msg' = [msg EXCEPT ![t] = ""]
  /\ img' = [img EXCEPT ![t] = NoImage]
  /\ results' = [results EXCEPT ![t] = <<>>]
  /\ detections' = [detections EXCEPT ![t] = <<>>]
  /\ idx' = [idx EXCEPT ![t] = 0]
  /\ status' = [status EXCEPT ![t] = NoResponse]
  /\ cache0' = [cache0 EXCEPT ![t] = <<None, None>>]
  /\ csv0' = [csv0 EXCEPT ![t] = <<>>]
  /\ UNCHANGED <<model_lock, model, loaded_path, exists, now, csvExists, csv>>
  /\ UNCHANGED <<acquired, rejected, unavailable>>
  /\ UNCHANGED harness

\* Line 187: finally: _infer_lock.release(); the response leaves.
Finally(t) ==
  /\ pc[t] = "finally"
  /\ infer_lock' = FALSE
  /\ released' = released + 1
  /\ pc' = [pc EXCEPT ![t] = "idle"]
  /\ target' = [target EXCEPT ![t] = None]
  /\ ok' = [ok EXCEPT ![t] = FALSE]
  /\ msg' = [msg EXCEPT ![t] = ""]
  /\ img' = [img EXCEPT ![t] = NoImage]
  /\ results' = [results EXCEPT ![t] = <<>>]
  /\ detections' = [detections EXCEPT ![t] = <<>>]
  /\ idx' = [idx EXCEPT ![t] = 0]
  /\ status' = [status EXCEPT ![t] = NoResponse]
  /\ cache0' = [cache0 EXCEPT ![t] = <<None, None>>]
  /\ csv0' = [csv0 EXCEPT ![t] = <<>>]
  /\ UNCHANGED <<model_lock, model, loaded_path, exists, now, csvExists, csv>>
  /\ UNCHANGED <<acquired, rejected, unavailable>>
  /\ UNCHANGED harness

\* The wall clock reaches the next second.
Tick ==
  /\ now < MaxClock
  /\ now' = now + 1
  /\ UNCHANGED <<infer_lock, model_lock, model, loaded_path, exists, csvExists, csv>>
  /\ UNCHANGED <<locals, history>>
  /\ UNCHANGED harness

DetectStep(t) ==
  \/ Resolve(t) \/ (EnsureStep(t) /\ UNCHANGED harness) \/ AfterEnsure(t)
  \/ Preprocess(t)
  \/ PredictOK(t) \/ PredictFail(t) \/ Parse(t) \/ LogIf(t)
  \/ AppendOpen(t) \/ AppendOpenFail(t) \/ AppendRow(t) \/ AppendRowFail(t)
  \/ AppendDone(t) \/ Finally(t)

Next ==
  \/ \E t \in Threads : TryAcquire(t)
  \/ \E t \in Threads : Busy(t)
  \/ \E t \in Threads : DetectStep(t)
  \/ \E p \in Paths : EnvCreate(p)
  \/ \E p \in Paths : EnvRemove(p)
  \/ Tick

Spec == Init /\ [][Next]_vars

\* The program with the wall clock standing still: no step of detect() waits for
\* the clock, which only stamps the rows.
NextClockStill ==
  \/ \E t \in Threads : TryAcquire(t)
  \/ \E t \in Threads : Busy(t)
  \/ \E t \in Threads : DetectStep(t)
  \/ \E p \in Paths : EnvCreate(p)
  \/ \E p \in Paths : EnvRemove(p)

\* Every request handler keeps running: the server's threads are scheduled fairly,
\* and each load, predict and file operation returns or raises.
FairSpec ==
  /\ Init
  /\ [][NextClockStill]_vars
  /\ \A t \in Threads : WF_vars(DetectStep(t))

\* ------------------------------------------------------------ GET routes
\* Lines 120-123: health.
Health ==
  /\ rpc = "idle"
  /\ resp' = [code |-> 200, kind |-> "ok", header |-> FALSE, lines |-> <<>>]
  /\ rpc' = "done"
  /\ UNCHANGED <<shared, locals, history>>
  /\ UNCHANGED <<calls, loadCount, loadFails, inputs, rows, rpos>>

\* CsvViewOpen taking _infer_lock before it reads the file.
CsvViewOpenLocking ==
  /\ rpc = "idle"
  /\ ~infer_lock
  /\ infer_lock' = TRUE
  /\ rows' = <<>>
  /\ rpos' = 0
  /\ rpc' = IF csvExists THEN "view_rows" ELSE "view_render"
  /\ UNCHANGED <<model_lock, model, loaded_path, exists, now, csvExists, csv>>
  /\ UNCHANGED <<locals, history>>
  /\ UNCHANGED <<calls, loadCount, loadFails, inputs, resp>>

\* Lines 192-195: the empty deque; the file is opened if it exists.
CsvViewOpen ==
  /\ rpc = "idle"
  /\ rows' = <<>>
  /\ rpos' = 0
  /\ rpc' = IF csvExists THEN "view_rows" ELSE "view_render"
  /\ UNCHANGED <<shared, locals, history>>
  /\ UNCHANGED <<calls, loadCount, loadFails, inputs, resp>>

\* Lines 196-197: the reader yields the next row of the file.
CsvViewRow ==
  /\ rpc = "view_rows"
  /\ rpos < Len(csv)
  /\ rows' = DequeAppend(rows, csv[rpos + 1])
  /\ rpos' = rpos + 1
  /\ UNCHANGED <<shared, locals, history>>
  /\ UNCHANGED <<calls, loadCount, loadFails, inputs, rpc, resp>>

\* Lines 196, 198-210: the reader is at the end of the file (or there is no
\* file): the page, one table row per element of rows under the heading row.
CsvViewRender ==
  /\ \/ rpc = "view_render"
     \/ rpc = "view_rows" /\ rpos >= Len(csv)
  /\ resp' = [code |-> 200, kind |-> "html", header |-> TRUE, lines |-> rows]
  /\ rpc' = "done"
  /\ UNCHANGED <<shared, locals, history>>
  /\ UNCHANGED <<calls, loadCount, loadFails, inputs, rows, rpos>>

\* Lines 214-221: csv_download: a header-only file when there is no file, else
\* send_file: the file as it is.
CsvDownload ==
  /\ rpc = "idle"
  /\ resp' = IF ~csvExists
               THEN [code |-> 200, kind |-> "csv", header |-> TRUE, lines |-> <<>>]
               ELSE [code |-> 200, kind |-> "csv", header |-> FALSE, lines |-> csv]
  /\ rpc' = "done"
  /\ UNCHANGED <<shared, locals, history>>
  /\ UNCHANGED <<calls, loadCount, loadFails, inputs, rows, rpos>>

\* The response has left; the thread takes the next GET request.
ReaderReturn ==
  /\ rpc = "done"
  /\ rpc' = "idle"
  /\ rows' = <<>>
  /\ rpos' = 0
  /\ resp' = NoReply
  /\ UNCHANGED <<shared, locals, history>>
  /\ UNCHANGED <<calls, loadCount, loadFails, inputs>>

ReaderStep ==
  \/ Health \/ CsvViewOpen \/ CsvViewRow \/ CsvViewRender \/ CsvDownload
  \/ ReaderReturn

\* ------------------------------------- GET routes on a file that has records
\* A file of n records, written one per second.
Stored(n) == [i \in 1..n |-> Row(i, CHOOSE d \in Dets : d.class_id = 0)]

\* The server starts on the file an earlier run left.
InitView ==
  /\ InitRest
  /\ \E n \in 0..MaxStored :
       /\ csv = Stored(n)
       /\ csvExists \in (IF n = 0 THEN BOOLEAN ELSE {TRUE})
  /\ decoded = NoImage

NextView == ReaderStep

SpecView == InitView /\ [][NextView]_vars

\* ------------------------------------ GET routes while detect() is running
\* The model files stay in place and the wall clock stands still: the GET routes
\* read neither.
NextRead ==
  \/ \E t \in Threads : TryAcquire(t)
  \/ \E t \in Threads : Busy(t)
  \/ \E t \in Threads : DetectStep(t)
  \/ ReaderStep

SpecRead == Init /\ [][NextRead]_vars

\* The thread serving the GET routes keeps running, whatever the threads in
\* detect() do.
FairRead == SpecRead /\ WF_vars(ReaderStep)

\* ------------------------------------------------- lines 147-151 alone
\* Decoded frames: one pixel narrower than target_w up to MaxOver pixels wider,
\* 1 to MaxHeight pixels high.
Frames ==
  { [k |-> "image", w |-> w, h |-> h] :
      w \in (target_w - 1)..(target_w + MaxOver), h \in 1..MaxHeight }

\* imdecode has returned the frame decoded.
InitResize ==
  /\ InitRest
  /\ csvExists = FALSE
  /\ csv = <<>>
  /\ decoded \in Frames

\* Lines 147-151 on the frame decoded.
BoundDecoded ==
  /\ resized = NoImage
  /\ resized' = BoundWidth(decoded)
  /\ UNCHANGED <<shared, locals, history>>
  /\ UNCHANGED <<calls, loadCount, loadFails, reader, body, decoded>>

NextResize == BoundDecoded

SpecResize == InitResize /\ [][NextResize]_vars

\* ------------------------------------------- detect, the body held fixed
\* The next POST /detect to be admitted arrives with a body of kind c.
Arrive(c) ==
  /\ \A t \in Threads : pc[t] = "idle"
  /\ body # c
  /\ body' = c
  /\ UNCHANGED <<shared, locals, history>>
  /\ UNCHANGED <<calls, loadCount, loadFails, reader, decoded, resized>>

DetectStepBody(t) ==
  \/ Resolve(t) \/ (EnsureStep(t) /\ UNCHANGED harness) \/ AfterEnsure(t)
  \/ PreprocessBody(t)
  \/ PredictOK(t) \/ PredictFail(t) \/ Parse(t) \/ LogIf(t)
  \/ AppendOpen(t) \/ AppendOpenFail(t) \/ AppendRow(t) \/ AppendRowFail(t)
  \/ AppendDone(t) \/ Finally(t)

NextBody ==
  \/ \E c \in BodyClasses : Arrive(c)
  \/ \E t \in Threads : TryAcquire(t)
  \/ \E t \in Threads : Busy(t)
  \/ \E t \in Threads : DetectStepBody(t)
  \/ \E p \in Paths : EnvCreate(p)
  \/ \E p \in Paths : EnvRemove(p)

SpecBody == Init /\ [][NextBody]_vars

\* ------------------------------------------------------------ properties
\* The requests between a successful acquire (line 128) and the release (line 187).
InFlight == { t \in Threads : pc[t] # "idle" }

\* C1: at most one request is between a successful gate acquisition and its
\* release (so at most one is at model.predict), and while one is, the gate is
\* held, so that every other admission attempt gets the busy outcome.
C1_OneInFlight ==
  /\ \A t1, t2 \in Threads : (t1 \in InFlight /\ t2 \in InFlight) => t1 = t2
  /\ Cardinality({ t \in Threads : pc[t] = "predict" }) <= 1
  /\ InFlight # {} => infer_lock

\* C1 witness: one request is at model.predict while another got the 429.
C1_Witness == rejected >= 1 /\ \E t \in Threads : pc[t] = "predict"

\* C2: the step that answers 429 changes nothing but the count of 429 answers:
\* the gate, the model lock, the cached (path, handle) pair, the audit file and
\* every request's position stay as they were.
C2_BusyChangesNothing ==
  [][rejected' # rejected =>
       /\ rejected' = rejected + 1
       /\ UNCHANGED <<shared, locals, cache0, csv0, acquired, released, unavailable,
                      harness>>]_vars

\* C2 witness: a 429 was answered while a model is cached and the file has rows.
C2_Witness ==
  rejected >= 1 /\ infer_lock /\ model # None /\ loaded_path # None /\ csv # <<>>

\* C3: every release is matched by an acquisition: the releases never exceed the
\* acquisitions, their difference is the number of admitted requests in progress
\* (each finished request released once, a 429 never released), and the gate is
\* Idle exactly when no admitted request is in progress.
C3_ReleaseOncePerAdmission ==
  /\ released <= acquired
  /\ acquired - released = Cardinality(InFlight)
  /\ infer_lock <=> InFlight # {}

\* C3 witness: after one request has released, another leaves through an
\* uncaught exception and is about to release.
C3_Witness ==
  /\ released >= 1
  /\ \E t \in Threads : pc[t] = "finally" /\ status[t] = Response(500, "uncaught")

\* C4: whenever the gate is Busy it eventually becomes Idle again.
C4_BusyLeadsToIdle == infer_lock ~> ~infer_lock

\* C4 witness: a request is admitted after another was answered 503.
C4_Witness == unavailable # {} /\ \E t \in Threads : pc[t] = "resolve"

\* C5: as long as no other path was loaded and no load raised, YOLO(p) has run at
\* most once, however many calls for p ran and however they interleaved; a call
\* that returned True did so with exactly one load done, and a call entered with
\* p cached returns True on the fast path, never reaching the load.
C5_LoadedOnce ==
  \A p \in Paths :
    (loadFails = 0 /\ \A q \in Paths \ {p} : loadCount[q] = 0) =>
      /\ loadCount[p] <= 1
      /\ \A t \in Threads :
           (target[t] = p /\ pc[t] = "returned" /\ ok[t]) => loadCount[p] = 1
      /\ \A t \in Threads :
           (target[t] = p /\ cache0[t] = <<p, p>>) =>
             /\ pc[t] \in {"fast_model", "fast_path", "returned"}
             /\ pc[t] = "returned" => ok[t]

\* C5 witness: two calls for the same path, in progress at the same time, have
\* both returned True after a single load.
C5_Witness ==
  \E p \in Paths : \E t1, t2 \in Threads :
    /\ t1 # t2
    /\ target[t1] = p /\ target[t2] = p
    /\ pc[t1] = "returned" /\ pc[t2] = "returned" /\ ok[t1] /\ ok[t2]
    /\ cache0[t2] # <<p, p>>
    /\ loadCount[p] = 1 /\ loadFails = 0

C7_NoNegativeCache ==
  [][\A t \in Threads :
       (pc[t] # "returned" /\ pc'[t] = "returned" /\ ~ok'[t]) =>
         \/ pc[t] = "exists" /\ ~exists[target[t]]
         \/ pc[t] = "clear_path"]_vars

\* C7 witness: a request is answered 200 for a path that an earlier request was
\* answered 503 for.
C7_Witness ==
  \E t \in Threads :
    pc[t] = "finally" /\ status[t].code = 200 /\ target[t] \in unavailable

\* C8: a request about to return 200 with k detections has extended the file it
\* found at admission by exactly k rows, row i carrying detection i.
C8_RowsMatchDetections ==
  \A t \in Threads :
    (pc[t] = "finally" /\ status[t].code = 200) =>
      /\ Len(csv) = Len(csv0[t]) + Len(detections[t])
      /\ SubSeq(csv, 1, Len(csv0[t])) = csv0[t]
      /\ \A i \in 1..Len(detections[t]) :
           RowDetection(csv[Len(csv0[t]) + i]) = detections[t][i]

\* C8 witness: a request returns 200 with two different detections.
C8_Witness ==
  \E t \in Threads :
    /\ pc[t] = "finally" /\ status[t].code = 200
    /\ Len(detections[t]) = 2
    /\ detections[t][1] # detections[t][2]

\* C9 as claimed: the rows one request appended carry the same timestamp.
C9_SharedTimestamp ==
  \A t \in Threads :
    pc[t] \in {"append_row", "finally"} =>
      \A i, j \in (Len(csv0[t]) + 1)..Len(csv) : csv[i][1] = csv[j][1]

\* The error bodies of the non-200 outcomes detect() returns itself.
ReturnedErrors ==
  { Response(503, "Model not available"), Response(400, "No image provided"),
    Response(400, "Failed to decode image"), Response(500, "inference failed"),
    Response(500, "parse failed") }

\* C10 as claimed: a request that ends in anything but 200 leaves the file as it
\* found it.
C10_Non200LeavesStore ==
  \A t \in Threads :
    (pc[t] = "finally" /\ status[t].code # 200) => csv = csv0[t]

\* C10 amended: the 429 step, and a request that ends in 503, 400 (no image,
\* undecodable) or 500 (inference failed, parse failed), leave the file as it
\* was; a request whose append raises may have written rows.
C10_ReturnedErrorLeavesStore ==
  [][/\ rejected' # rejected => (csv' = csv /\ csvExists' = csvExists)
     /\ \A t \in Threads :
          (pc'[t] = "finally" /\ status'[t] \in ReturnedErrors) =>
            (csv' = csv0[t] /\ csvExists' = csvExists)]_vars

\* C10 witness: a request ends in 500 parse failed on a file that has rows.
C10_Witness ==
  \E t \in Threads :
    pc[t] = "finally" /\ status[t] = Response(500, "parse failed") /\ csv # <<>>

\* C11: an admitted request whose body gives no image bytes, or bytes that cannot
\* be decoded, is answered 400, never 5xx, whatever the state of the registry.
C11_NoImageIs400 ==
  \A t \in Threads :
    (pc[t] = "finally" /\ body \in {"raises", "no_bytes", "undecodable"}) =>
      status[t].code = 400

\* C12: the page GET /csv returns shows the last min(N, 200) of the N records of
\* the file, in file order, none twice and none left out.
C12_TailView ==
  (rpc = "done" /\ resp.kind = "html") =>
    /\ resp.code = 200
    /\ Len(resp.lines) = Min(Len(csv), maxlen)
    /\ \A i \in 1..Len(resp.lines) :
         resp.lines[i] = csv[Len(csv) - Len(resp.lines) + i]

\* C12 witness: the page for a file of more than 200 records.
C12_Witness ==
  rpc = "done" /\ resp.kind = "html" /\ Len(csv) > maxlen /\ Len(resp.lines) = maxlen

\* C13: whenever the file holds no records (it is absent, or it exists and is
\* empty), GET /logs/detections.csv returns the header row and no data row.
C13_EmptyStoreHeaderOnly ==
  (rpc = "done" /\ resp.kind = "csv" /\ csv = <<>>) =>
    (resp.header /\ resp.lines = <<>>)

\* The state the GET routes have no business with.
gateway == <<infer_lock, model_lock, model, loaded_path, csvExists, csv>>

\* C20: a step of GET /health, GET /csv or GET /logs/detections.csv leaves the
\* gate, the model lock, the model cache and the audit file as they are, and a
\* GET request being served is answered and its thread free again, whether or not
\* a thread in detect() holds the gate and however long it holds it.
C20_ReadersStandAside ==
  /\ [][(rpc' # rpc \/ rows' # rows \/ rpos' # rpos \/ resp' # resp) =>
         UNCHANGED <<gateway, exists, now, locals, history>>]_vars
  /\ (rpc # "idle") ~> (rpc = "idle")

\* C20 witness: GET /csv is answered while a request is at model.predict, holding
\* the gate, with a model cached and records in the file.
C20_Witness ==
  /\ rpc = "done" /\ resp.kind = "html" /\ resp.lines # <<>>
  /\ infer_lock /\ model # None
  /\ \E t \in Threads : pc[t] = "predict"

\* C14: every step of the gateway, of detect() and of the GET routes alike, leaves
\* the rows the file holds where they are and as they are: the file after the
\* step is the file before it with rows added at the end (so the rows of every
\* reachable state extend those of every earlier state, in insertion order), and
\* the file, once there, stays.
C14_AppendOnly ==
  [][/\ Len(csv') >= Len(csv)
     /\ SubSeq(csv', 1, Len(csv)) = csv
     /\ csvExists => csvExists']_vars

\* C14 witness: a request has added rows to a file that held rows of an earlier
\* request, and a GET route has been served.
C14_Witness ==
  /\ rpc = "done"
  /\ \E t \in Threads :
       /\ pc[t] = "finally" /\ status[t].code = 200
       /\ csv0[t] # <<>> /\ Len(csv) > Len(csv0[t])

\* The step in which the call of thread t decides to return True.
ReturnsTrue(t) == pc[t] # "returned" /\ pc'[t] = "returned" /\ ok'[t]

\* No other thread is inside _ensure_model_loaded.
OthersQuiet(t) == \A u \in Threads \ {t} : pc[u] \in {"idle", "returned"}

\* C15: the cache is one slot. Whenever no call is in progress it is empty or
\* holds one handle, the one of the cached path. A call for path B that returns
\* True with no other call in progress leaves the cache holding (B, handle of B),
\* whatever was cached before, and it found B cached or has just loaded B itself.
\* The cached path changes to B only at the end of a load of B, and every such
\* load is a new YOLO(B) call: a path that was evicted is loaded afresh.
C15_SingleSlot ==
  [][/\ (\A t \in Threads : pc'[t] \in {"idle", "returned"}) => model' = loaded_path'
     /\ \A t \in Threads :
          (ReturnsTrue(t) /\ OthersQuiet(t)) =>
            /\ model' = target[t] /\ loaded_path' = target[t]
            /\ \/ model = target[t] /\ loaded_path = target[t]
               \/ pc[t] = "set_path" /\ msg'[t] = "Model loaded"
     /\ (loaded_path' # loaded_path /\ loaded_path' # None) =>
          \E t \in Threads :
            pc[t] = "set_path" /\ target[t] = loaded_path' /\ model = target[t]
     /\ \A t \in Threads :
          (pc[t] # "set_path" /\ pc'[t] = "set_path") =>
            loadCount'[target[t]] = loadCount[target[t]] + 1]_vars

\* C15 witness: a path was loaded, evicted by a load of the other path, then
\* requested again: the call, entered with the other path cached and alone in
\* the registry, has returned True after the second load of its path.
C15_Witness ==
  \E t \in Threads :
    /\ pc[t] = "returned" /\ ok[t] /\ OthersQuiet(t)
    /\ cache0[t][1] \in Paths \ {target[t]}
    /\ cache0[t][1] = cache0[t][2]
    /\ loadCount[target[t]] = 2 /\ loadFails = 0
    /\ model = target[t] /\ loaded_path = target[t]

\* C17 as claimed: whenever a call of _ensure_model_loaded for path P decides to
\* return True, on the fast path or under _model_lock, the cached handle is the
\* one loaded from P.
C17_RaceFree ==
  [][\A t \in Threads : ReturnsTrue(t) => model' = target[t]]_vars

\* C17 amended: a call that returns True under _model_lock (line 58 or line 70)
\* does so with the cache holding P and the handle loaded from P. A call that
\* returns True on the fast path has read _loaded_path = P, and the handle is the
\* one of P unless another call is, at that moment, between its two writes of the
\* pair (lines 67-68 or 73-74).
C17_RaceFreeUnderLock ==
  [][\A t \in Threads :
       ReturnsTrue(t) =>
         IF pc[t] = "fast_path"
           THEN /\ loaded_path' = target[t]
                /\ \/ model' = target[t]
                   \/ \E u \in Threads \ {t} : pc[u] \in {"set_path", "clear_path"}
           ELSE /\ pc[t] \in {"recheck", "set_path"}
                /\ model' = target[t] /\ loaded_path' = target[t]]_vars

\* C17 witness: a call has loaded its path and returned True while a call for the
\* other path was waiting for _model_lock.
C17_Witness ==
  \E t, u \in Threads :
    /\ pc[t] = "returned" /\ ok[t] /\ msg[t] = "Model loaded"
    /\ pc[u] = "lock" /\ target[u] # target[t]
    /\ model = target[t] /\ loaded_path = target[t]

\* The threads inside _append_rows.
Appending == { t \in Threads : pc[t] \in {"append_open", "append_row"} }

\* C16: at most one thread is inside _append_rows, and it holds the gate; while
\* it writes, the file is the file it found at admission followed by the rows it
\* has written so far, in the order of its detections, with no row of another
\* request among them.
C16_OneWriter ==
  /\ Cardinality(Appending) <= 1
  /\ Appending # {} => infer_lock
  /\ \A t \in Threads :
       pc[t] = "append_row" =>
         /\ Len(csv) = Len(csv0[t]) + idx[t] - 1
         /\ SubSeq(csv, 1, Len(csv0[t])) = csv0[t]
         /\ \A i \in 1..(idx[t] - 1) :
              RowDetection(csv[Len(csv0[t]) + i]) = detections[t][i]

\* C16 witness: a request has written the first of its two rows while another
\* request was turned away.
C16_Witness ==
  \E t \in Threads :
    pc[t] = "append_row" /\ idx[t] = 2 /\ Len(detections[t]) = 2 /\ rejected >= 1

\* C19: a request between its successful _ensure_model_loaded and the return of
\* model.predict finds in the global model the handle loaded from the path it
\* resolved, never None and never another request's model.
C19_PredictsOwnModel ==
  \A t \in Threads :
    pc[t] \in {"read", "predict"} =>
      (model # None /\ model = target[t] /\ loaded_path = target[t])

\* C19 witness: a request is at model.predict with the model of the alias "best"
\* after an earlier request was answered 503 for the default path.
C19_Witness ==
  \E t \in Threads :
    /\ pc[t] = "predict" /\ target[t] = MODEL_BEST_PATH
    /\ MODEL_PATH \in unavailable /\ released >= 1

\* C18 as claimed: the frame passed on for a frame wider than 480 is 480 wide and
\* h * 480 / w, rounded to the nearest integer, high; a frame at most 480 wide is
\* passed on as it is.
C18_RoundedHeight ==
  resized.k = "image" =>
    IF decoded.w > target_w
      THEN /\ resized.w = target_w
           /\ resized.h = (2 * decoded.h * target_w + decoded.w) \div (2 * decoded.w)
      ELSE resized = decoded

\* C18 amended: a frame at most 480 wide is passed on as it is. For a wider one
\* the height asked for is h * 480 / w truncated, never rounded up: the whole
\* part q of the quotient, or q - 1 where the quotient is a whole number (the
\* floating-point product can fall just below it). If that height is 0 the
\* resize raises; otherwise the frame is passed on 480 wide and that high.
C18_TruncatedHeight ==
  resized # NoImage =>
    IF decoded.w > target_w
      THEN LET q == (decoded.h * target_w) \div decoded.w
               whole == (decoded.h * target_w) % decoded.w = 0
           IN IF resized = Raised
                THEN q = 0 \/ (q = 1 /\ whole)
                ELSE /\ resized.k = "image"
                     /\ resized.w = target_w
                     /\ resized.h >= 1
                     /\ resized.h = q \/ (resized.h = q - 1 /\ whole)
      ELSE resized = decoded

\* C18 witness: a frame wider than 480 whose quotient h * 480 / w has a fraction
\* of a half or more has been resized to less than the nearest integer.
C18_Witness ==
  /\ resized.k = "image"
  /\ decoded.w > target_w
  /\ resized.h < (2 * decoded.h * target_w + decoded.w) \div (2 * decoded.w)

====
